---- MODULE Spec2Model ----
(***************************************************************************)
(* Model of the Maya baking renamer (src/maya_baking_renamer.py, the       *)
(* identical naming engine of src/scripts/maya_baking_renamer.py and the   *)
(* rename handlers of src/maya_baking_renamer_gui.py), and of the material *)
(* configuration and material assignment of                                *)
(* src/scripts/maya_baking_renamer.py.                                     *)
(*                                                                         *)
(* Names are sequences of one-character strings, so that endswith, slicing *)
(* and the "{counter:02d}" formatting are computed character by character. *)
(* The host scene is a flat namespace: a function from object identities   *)
(* to pairwise distinct names.                                             *)
(***************************************************************************)
EXTENDS Integers, Sequences, FiniteSets, TLC

VARIABLES
    scene,              \* host scene: object id -> name
    rename_history,     \* self.rename_history: sequence of batches of <<old, new>>
    selection_history,  \* self.selection_history: sequence of selection snapshots
    auto_calls,         \* number of auto-rename invocations (non-empty selection) since construction or clear_history
    material_configs,   \* MaterialConfig.material_configs: the records in insertion order
    shading,            \* host shading network: lambert nodes and shading groups
    ops,                \* number of operations performed so far
    last                \* record of the last operation performed (its inputs and its trace)

vars == <<scene, rename_history, selection_history, auto_calls,
          material_configs, shading, ops, last>>

matvars == <<material_configs, shading>>

----------------------------------------------------------------------------
(* Bounds *)

MaxOps == 3
MaxCounter == 10
MaxParts == 2

----------------------------------------------------------------------------
(* Strings *)

S_low  == <<"_", "l", "o", "w">>
S_high == <<"_", "h", "i", "g", "h">>
S_cage == <<"_", "c", "a", "g", "e">>
S_bake == <<"_", "b", "a", "k", "e">>
S_LP   == <<"_", "L", "P">>
S_HP   == <<"_", "H", "P">>

\* suffixes = ['_low', '_high', '_cage', '_bake', '_LP', '_HP']
suffixes == <<S_low, S_high, S_cage, S_bake, S_LP, S_HP>>

\* str.endswith
EndsWith(s, suf) ==
    /\ Len(suf) <= Len(s)
    /\ SubSeq(s, Len(s) - Len(suf) + 1, Len(s)) = suf

\* str.startswith
StartsWith(s, pre) ==
    /\ Len(pre) <= Len(s)
    /\ SubSeq(s, 1, Len(pre)) = pre

\* s[:-n] for 0 < n <= len(s)
DropLast(s, n) == SubSeq(s, 1, Len(s) - n)

DigitChar(d) == <<"0", "1", "2", "3", "4", "5", "6", "7", "8", "9">>[d + 1]

\* decimal digits of k >= 0, without padding
RECURSIVE Decimal(_)
Decimal(k) == IF k < 10 THEN <<DigitChar(k)>>
              ELSE Decimal(k \div 10) \o <<DigitChar(k % 10)>>

\* format(counter, "02d"): zero-padded to at least two digits
Format02d(k) == IF Len(Decimal(k)) < 2 THEN <<"0">> \o Decimal(k) ELSE Decimal(k)

\* f"{base_name}_{counter:02d}"
CounterName(base_name, counter) == base_name \o <<"_">> \o Format02d(counter)

----------------------------------------------------------------------------
(* Material configuration after construction *)

\* Colour components and transparencies are fixed-point numbers counted in
\* hundredths: 0.8 is 80 and 1.0 is 100.

S_BakingMaterial == <<"B", "a", "k", "i", "n", "g", "M", "a", "t", "e", "r", "i", "a", "l", "_">>

\* MaterialConfig.__init__: the three default records
DefaultMaterialConfigs ==
    << [suffix |-> S_low, color |-> <<0, 80, 0>>, transparency |-> 0,
        material_name |-> S_BakingMaterial \o <<"L", "o", "w">>, enabled |-> TRUE],
       [suffix |-> S_high, color |-> <<80, 0, 0>>, transparency |-> 0,
        material_name |-> S_BakingMaterial \o <<"H", "i", "g", "h">>, enabled |-> TRUE],
       [suffix |-> S_cage, color |-> <<0, 0, 80>>, transparency |-> 0,
        material_name |-> S_BakingMaterial \o <<"C", "a", "g", "e">>, enabled |-> TRUE] >>

\* a scene in which the tool has created no material yet
NoShading == [materials |-> {}, groups |-> {}]

----------------------------------------------------------------------------
(* Naming engine *)

Names(sc) == {sc[o] : o \in DOMAIN sc}

\* the no-break variant of the suffix scan: keeps scanning the rest of the list
RECURSIVE CleanLoopNoBreak(_, _)
CleanLoopNoBreak(base_name, i) ==
    IF i > Len(suffixes) THEN base_name
    ELSE IF EndsWith(base_name, suffixes[i])
         THEN CleanLoopNoBreak(DropLast(base_name, Len(suffixes[i])), i + 1)
         ELSE CleanLoopNoBreak(base_name, i + 1)

\* the scan that cuts one character too few
RECURSIVE CleanLoopShortCut(_, _)
CleanLoopShortCut(base_name, i) ==
    IF i > Len(suffixes) THEN base_name
    ELSE IF EndsWith(base_name, suffixes[i])
         THEN DropLast(base_name, Len(suffixes[i]) - 1)
         ELSE CleanLoopShortCut(base_name, i + 1)

\* for suffix in suffixes: if base_name.endswith(suffix): strip; break
RECURSIVE CleanLoop(_, _)
CleanLoop(base_name, i) ==
    IF i > Len(suffixes) THEN base_name
    ELSE IF EndsWith(base_name, suffixes[i])
         THEN DropLast(base_name, Len(suffixes[i]))
         ELSE CleanLoop(base_name, i + 1)

clean_object_name_nobreak(obj_name) == CleanLoopNoBreak(obj_name, 1)

clean_object_name_shortcut(obj_name) == CleanLoopShortCut(obj_name, 1)

clean_object_name(obj_name) == CleanLoop(obj_name, 1)

\* len(cmds.ls(new_name)) > 0
check_name_conflict(new_name, sc) == new_name \in Names(sc)

\* while True: test base_NN; return it when free; counter += 1
\* tested is the sequence of counter values tested so far
RECURSIVE GenLoop(_, _, _, _)
GenLoop(base_name, sc, counter, tested) ==
    IF ~check_name_conflict(CounterName(base_name, counter), sc)
    THEN [name |-> CounterName(base_name, counter), tested |-> Append(tested, counter)]
    ELSE GenLoop(base_name, sc, counter + 1, Append(tested, counter))

\* the variant that returns the first candidate without testing it
generate_unique_name_unchecked(base_name, sc) ==
    IF ~check_name_conflict(base_name, sc)
    THEN [name |-> base_name, tested |-> <<>>]
    ELSE [name |-> CounterName(base_name, 1), tested |-> <<1>>]

\* the variant whose counter starts at 2
generate_unique_name_from2(base_name, sc) ==
    IF ~check_name_conflict(base_name, sc)
    THEN [name |-> base_name, tested |-> <<>>]
    ELSE GenLoop(base_name, sc, 2, <<>>)

\* the variant that tests every candidate twice before moving on
RECURSIVE GenLoopRetest(_, _, _, _)
GenLoopRetest(base_name, sc, counter, tested) ==
    IF ~check_name_conflict(CounterName(base_name, counter), sc)
    THEN [name |-> CounterName(base_name, counter), tested |-> tested \o <<counter, counter>>]
    ELSE GenLoopRetest(base_name, sc, counter + 1, tested \o <<counter, counter>>)

generate_unique_name_retest(base_name, sc) ==
    IF ~check_name_conflict(base_name, sc)
    THEN [name |-> base_name, tested |-> <<>>]
    ELSE GenLoopRetest(base_name, sc, 1, <<>>)

generate_unique_name(base_name, sc) ==
    IF ~check_name_conflict(base_name, sc)
    THEN [name |-> base_name, tested |-> <<>>]
    ELSE GenLoop(base_name, sc, 1, <<>>)

----------------------------------------------------------------------------
(* Inputs of the naming-engine specification *)

Stems == {<<"A">>, <<"A", "B">>}

\* name parts: the known suffixes and near misses of them
Tails == {S_low, S_high, S_cage, S_bake, S_LP, S_HP,
          <<"_", "l", "o">>, <<"l", "o", "w">>, <<"_", "L", "o", "w">>,
          <<"_", "0", "1">>, <<"_", "l", "p">>}

RECURSIVE WithTails(_)
WithTails(n) == IF n = 0 THEN Stems
                ELSE WithTails(n - 1) \cup {s \o t : s \in WithTails(n - 1), t \in Tails}

CleanInputs == WithTails(MaxParts)

GenBases == {<<"A">>, <<"A">> \o S_low}

\* a scene holding base (id 0, optional) and base_NN for the counters of S (id k)
CounterScene(base, withBase, S) ==
    [i \in (IF withBase THEN {0} ELSE {}) \cup S |->
        IF i = 0 THEN base ELSE CounterName(base, i)]

NoOp == [op |-> "none"]

InitNames ==
    /\ \E base \in GenBases, withBase \in BOOLEAN, S \in SUBSET (1..MaxCounter) :
          scene = CounterScene(base, withBase, S)
    /\ rename_history = <<>>
    /\ selection_history = <<>>
    /\ auto_calls = 0
    /\ material_configs = DefaultMaterialConfigs
    /\ shading = NoShading
    /\ ops = 0
    /\ last = NoOp

\* a direct call of generate_unique_name(base_name) on the current scene
CallGenerateUniqueName(base_name) ==
    /\ last' = [op |-> "generate_unique_name", base |-> base_name,
                name |-> generate_unique_name(base_name, scene).name,
                tested |-> generate_unique_name(base_name, scene).tested]
    /\ UNCHANGED <<scene, rename_history, selection_history, auto_calls, matvars, ops>>

\* a direct call of clean_object_name(obj_name); the function reads no state,
\* so one call per behaviour covers every call
CallCleanObjectName(obj_name) ==
    /\ ops = 0
    /\ ops' = ops + 1
    /\ last' = [op |-> "clean_object_name", obj_name |-> obj_name,
                result |-> clean_object_name(obj_name)]
    /\ UNCHANGED <<scene, rename_history, selection_history, auto_calls, matvars>>

NextNames == \E base_name \in GenBases : CallGenerateUniqueName(base_name)

SpecNames == InitNames /\ [][NextNames]_vars

\* clean_object_name does not read the scene: its specification starts from an empty one
InitClean ==
    /\ scene = CounterScene(<<"A">>, FALSE, {})
    /\ rename_history = <<>>
    /\ selection_history = <<>>
    /\ auto_calls = 0
    /\ material_configs = DefaultMaterialConfigs
    /\ shading = NoShading
    /\ ops = 0
    /\ last = NoOp

NextClean == \E obj_name \in CleanInputs : CallCleanObjectName(obj_name)

SpecClean == InitClean /\ [][NextClean]_vars

----------------------------------------------------------------------------
(* Host scene (maya.cmds) as the renamer uses it *)

\* cmds.objExists(name)
objExists(name, sc) == name \in Names(sc)

\* the object a name denotes (names are pairwise distinct)
ObjOf(name, sc) == CHOOSE o \in DOMAIN sc : sc[o] = name

\* the host's answer to a rename onto a name another object holds: it appends
\* the smallest number that makes the name unique
RECURSIVE HostFreeName(_, _, _)
HostFreeName(target, taken, k) ==
    IF target \o Decimal(k) \notin taken THEN target \o Decimal(k)
    ELSE HostFreeName(target, taken, k + 1)

\* cmds.rename(obj, new_name) on an object the host lets rename: the scene afterwards
HostRename(sc, o, target) ==
    LET taken == {sc[p] : p \in DOMAIN sc \ {o}}
    IN  [sc EXCEPT ![o] = IF target \notin taken THEN target
                          ELSE HostFreeName(target, taken, 1)]

\* cmds.rename raises for a missing object and for an object the host refuses
\* to rename (bad: the locked or read-only objects of this invocation)
HostRenameFails(name, sc, bad) == ~objExists(name, sc) \/ ObjOf(name, sc) \in bad

----------------------------------------------------------------------------
(* Rename operations *)

\* the name requested for obj: base + suffix, replaced by a unique name on conflict
\* the variant that requests base + suffix without looking at the scene
RequestedNameUnchecked(obj, suffix, sc) == clean_object_name(obj) \o suffix

RequestedName(obj, suffix, sc) ==
    LET new_name == clean_object_name(obj) \o suffix
    IN  IF check_name_conflict(new_name, sc)
        THEN generate_unique_name(new_name, sc).name
        ELSE new_name

EmptyRun(sc) == [scene |-> sc, record |-> <<>>, steps |-> <<>>, raised |-> FALSE]

\* for obj in objects: try: ... cmds.rename ... except: cmds.error(...)
\* cmds.error raises RuntimeError, so the first failing host call ends the loop
\* and the function (raised = TRUE).
RECURSIVE RenameLoop(_, _, _, _, _)
RenameLoop(objects, i, suffix, bad, run) ==
    IF i > Len(objects) THEN run
    ELSE LET obj == objects[i]
             sc == run.scene
             new_name == RequestedName(obj, suffix, sc)
         IN  IF HostRenameFails(obj, sc, bad)
             THEN [run EXCEPT !.raised = TRUE,
                              !.steps = Append(@, [old |-> obj, requested |-> new_name,
                                                   taken |-> Names(sc), failed |-> TRUE,
                                                   renamed |-> obj])]
             ELSE LET o == ObjOf(obj, sc)
                      sc2 == HostRename(sc, o, new_name)
                  IN  RenameLoop(objects, i + 1, suffix, bad,
                          [scene |-> sc2,
                           record |-> Append(run.record, <<obj, sc2[o]>>),
                           steps |-> Append(run.steps,
                                        [old |-> obj, requested |-> new_name,
                                         taken |-> Names(sc), failed |-> FALSE,
                                         renamed |-> sc2[o]]),
                           raised |-> FALSE])

\* the common body of rename_to_low / rename_to_high / rename_with_custom_suffix
RenameBatch(objects, suffix, sc, bad) ==
    IF objects = <<>> THEN EmptyRun(sc)
    ELSE RenameLoop(objects, 1, suffix, bad, EmptyRun(sc))

rename_to_low(objects, sc, bad) == RenameBatch(objects, S_low, sc, bad)

rename_to_high(objects, sc, bad) == RenameBatch(objects, S_high, sc, bad)

\* the variant that takes the suffix as typed
NormalSuffixAsTyped(suffix) == suffix

\* if not suffix: return []; if not suffix.startswith('_'): suffix = '_' + suffix
NormalSuffix(suffix) == IF StartsWith(suffix, <<"_">>) THEN suffix ELSE <<"_">> \o suffix

rename_with_custom_suffix(suffix, objects, sc, bad) ==
    IF suffix = <<>> THEN EmptyRun(sc)
    ELSE RenameBatch(objects, NormalSuffix(suffix), sc, bad)

\* if rename_record: self.rename_history.append(rename_record)
\* (not reached when the loop raised)
HistoryAfter(hist, run) ==
    IF run.raised \/ run.record = <<>> THEN hist ELSE Append(hist, run.record)

\* the list a rename function returns (nothing when it raised)
Returned(run) == IF run.raised THEN <<>> ELSE [i \in 1..Len(run.record) |-> run.record[i][2]]

----------------------------------------------------------------------------
(* Undo *)

RECURSIVE Reverse(_)
Reverse(q) == IF q = <<>> THEN <<>> ELSE Append(Reverse(Tail(q)), Head(q))

\* for old_name, new_name in reversed(last_rename):
\*     if cmds.objExists(new_name): cmds.rename(new_name, old_name)
\* pairs holds the reversed batch; a failing host call raises through cmds.error
RECURSIVE UndoLoop(_, _, _, _)
UndoLoop(pairs, i, bad, run) ==
    IF i > Len(pairs) THEN run
    ELSE LET old_name == pairs[i][1]
             new_name == pairs[i][2]
             sc == run.scene
         IN  IF ~objExists(new_name, sc)
             THEN UndoLoop(pairs, i + 1, bad,
                      [run EXCEPT !.steps = Append(@,
                          [pair |-> pairs[i], existed |-> FALSE, obj |-> 0,
                           failed |-> FALSE, before |-> sc, after |-> sc])])
             ELSE IF HostRenameFails(new_name, sc, bad)
             THEN [run EXCEPT !.raised = TRUE,
                              !.steps = Append(@,
                          [pair |-> pairs[i], existed |-> TRUE, obj |-> ObjOf(new_name, sc),
                           failed |-> TRUE, before |-> sc, after |-> sc])]
             ELSE LET o == ObjOf(new_name, sc)
                      sc2 == HostRename(sc, o, old_name)
                  IN  UndoLoop(pairs, i + 1, bad,
                          [run EXCEPT !.scene = sc2,
                                      !.steps = Append(@,
                              [pair |-> pairs[i], existed |-> TRUE, obj |-> o,
                               failed |-> FALSE, before |-> sc, after |-> sc2])])

\* the variant that walks the batch in recording order
undo_pairs_forward(batch) == batch

\* reversed(last_rename)
undo_pairs(batch) == Reverse(batch)

\* the variant that pops the oldest batch
pop_first(hist) == [rest |-> Tail(hist), popped |-> Head(hist)]

\* last_rename = self.rename_history.pop()
pop(hist) == [rest |-> SubSeq(hist, 1, Len(hist) - 1), popped |-> hist[Len(hist)]]

\* the variant that puts the batch back on the stack when the walk raised
undo_last_rename_pushback(hist, sc, bad) ==
    IF hist = <<>> THEN [hist |-> hist, run |-> EmptyRun(sc)]
    ELSE LET run == UndoLoop(undo_pairs(pop(hist).popped), 1, bad, EmptyRun(sc))
         IN  [hist |-> IF run.raised THEN hist ELSE pop(hist).rest, run |-> run]

undo_last_rename(hist, sc, bad) ==
    IF hist = <<>> THEN [hist |-> hist, run |-> EmptyRun(sc)]
    ELSE [hist |-> pop(hist).rest,
          run |-> UndoLoop(undo_pairs(pop(hist).popped), 1, bad, EmptyRun(sc))]

----------------------------------------------------------------------------
(* Auto rename by selection order *)

\* the variant that empties the history on a third invocation
AutoHistoryEmptied(hist, selected, raised) ==
    LET appended == Append(hist, selected)
    IN  IF Len(appended) = 1 THEN appended
        ELSE IF Len(appended) = 2 THEN (IF raised THEN appended ELSE <<>>)
        ELSE <<>>

\* self.selection_history after auto_rename_by_selection_order(selected), where
\* raised tells whether the rename call raised (which skips the reset of line 291)
AutoHistory(hist, selected, raised) ==
    LET appended == Append(hist, selected)
    IN  IF Len(appended) = 1 THEN appended
        ELSE IF Len(appended) = 2 THEN (IF raised THEN appended ELSE <<>>)
        ELSE <<selected>>

\* the variant that applies _high whenever a snapshot is already held
AutoSuffixByHeld(hist) == IF Len(hist) + 1 = 1 THEN S_low ELSE S_high

\* the suffix auto_rename_by_selection_order applies: _low for selection_count 1,
\* _high for 2, _low again (restart) for 3 and more
AutoSuffix(hist) ==
    IF Len(hist) + 1 = 1 THEN S_low
    ELSE IF Len(hist) + 1 = 2 THEN S_high
    ELSE S_low

----------------------------------------------------------------------------
(* Panel: clean all suffixes *)

\* for obj in selected: base_name = clean_object_name(obj)
\*     if base_name != obj: cmds.rename(obj, base_name); cleaned_objects.append(base_name)
\* the panel's try/except around the loop ends it at the first failing host call
RECURSIVE CleanSuffixLoop(_, _, _, _)
CleanSuffixLoop(selected, i, bad, run) ==
    IF i > Len(selected) THEN run
    ELSE LET obj == selected[i]
             sc == run.scene
             base_name == clean_object_name(obj)
         IN  IF base_name = obj
             THEN CleanSuffixLoop(selected, i + 1, bad, run)
             ELSE IF HostRenameFails(obj, sc, bad) \/ base_name = <<>>
             THEN [run EXCEPT !.raised = TRUE,
                              !.steps = Append(@, [old |-> obj, requested |-> base_name,
                                                   taken |-> Names(sc), failed |-> TRUE,
                                                   renamed |-> obj])]
             ELSE LET o == ObjOf(obj, sc)
                      sc2 == HostRename(sc, o, base_name)
                  IN  CleanSuffixLoop(selected, i + 1, bad,
                          [run EXCEPT !.scene = sc2,
                                      !.steps = Append(@,
                                          [old |-> obj, requested |-> base_name,
                                           taken |-> Names(sc), failed |-> FALSE,
                                           renamed |-> sc2[o]])])

\* MayaBakingRenamerGUI.clean_all_suffixes: renames, records no batch
clean_all_suffixes(selected, sc, bad) == CleanSuffixLoop(selected, 1, bad, EmptyRun(sc))

----------------------------------------------------------------------------
(* The renamer and its panel as a state machine *)

A_    == <<"A">>
A_low == <<"A">> \o S_low

InitialScenes == { <<A_, A_low>> }

\* cmds.ls(selection=True, transforms=True): the selected names in selection order
Selections(sc) ==
    {<<>>} \cup {<<sc[o]>> : o \in DOMAIN sc}
           \cup {q \in {<<sc[o], sc[p]>> : o \in DOMAIN sc, p \in DOMAIN sc} : q[1] # q[2]}

\* the text of the custom-suffix field
CustomSuffixes == {<<>>, <<"c", "a", "g", "e">>, S_cage}

\* the objects the host may refuse to rename (locked or referenced nodes)
Lockable == {2}

Op(kind, suffix, objects, run) ==
    [op |-> kind, suffix |-> suffix, objects |-> objects,
     steps |-> run.steps, raised |-> run.raised, returned |-> Returned(run),
     pre |-> scene, pre_hist |-> rename_history, pre_sel |-> selection_history]

Init ==
    /\ scene \in InitialScenes
    /\ rename_history = <<>>
    /\ selection_history = <<>>
    /\ auto_calls = 0
    /\ material_configs = DefaultMaterialConfigs
    /\ shading = NoShading
    /\ ops = 0
    /\ last = NoOp

\* one operation of the rename panel; it leaves the material state alone
Step ==
    /\ ops < MaxOps
    /\ ops' = ops + 1
    /\ UNCHANGED matvars

ApplyRename(suffix, objects, run) ==
    /\ Step
    /\ scene' = run.scene
    /\ rename_history' = HistoryAfter(rename_history, run)
    /\ last' = Op("rename", suffix, objects, run)
    /\ UNCHANGED <<selection_history, auto_calls>>

RenameToLow(objects, bad) ==
    ApplyRename(S_low, objects, rename_to_low(objects, scene, bad))

RenameToHigh(objects, bad) ==
    ApplyRename(S_high, objects, rename_to_high(objects, scene, bad))

RenameWithCustomSuffix(suffix, objects, bad) ==
    ApplyRename(IF suffix = <<>> THEN suffix ELSE NormalSuffix(suffix), objects,
                rename_with_custom_suffix(suffix, objects, scene, bad))

\* the variant that records the selection before testing whether it is empty
AutoRenameRecordsEmptySelection(selected, bad) ==
    LET suffix == AutoSuffix(selection_history)
        run == RenameBatch(selected, suffix, scene, bad)
    IN  /\ Step
        /\ scene' = run.scene
        /\ rename_history' = HistoryAfter(rename_history, run)
        /\ selection_history' = AutoHistory(selection_history, selected, run.raised)
        /\ auto_calls' = auto_calls + 1
        /\ last' = Op("auto", IF selected = <<>> THEN <<>> ELSE suffix, selected, run)

AutoRenameBySelectionOrder(selected, bad) ==
    /\ Step
    /\ IF selected = <<>>
       THEN /\ last' = Op("auto", <<>>, selected, EmptyRun(scene))
            /\ UNCHANGED <<scene, rename_history, selection_history, auto_calls>>
       ELSE LET suffix == AutoSuffix(selection_history)
                run == RenameBatch(selected, suffix, scene, bad)
            IN  /\ scene' = run.scene
                /\ rename_history' = HistoryAfter(rename_history, run)
                /\ selection_history' = AutoHistory(selection_history, selected, run.raised)
                /\ auto_calls' = auto_calls + 1
                /\ last' = Op("auto", suffix, selected, run)

\* the variant in which an undo also takes back the last selection snapshot
UndoLastRenameRewindsCycle(bad) ==
    LET u == undo_last_rename(rename_history, scene, bad)
    IN  /\ Step
        /\ scene' = u.run.scene
        /\ rename_history' = u.hist
        /\ selection_history' =
               IF selection_history = <<>> THEN <<>>
               ELSE SubSeq(selection_history, 1, Len(selection_history) - 1)
        /\ last' = Op("undo", <<>>, <<>>, u.run)
        /\ UNCHANGED auto_calls

UndoLastRename(bad) ==
    LET u == undo_last_rename(rename_history, scene, bad)
    IN  /\ Step
        /\ scene' = u.run.scene
        /\ rename_history' = u.hist
        /\ last' = Op("undo", <<>>, <<>>, u.run)
        /\ UNCHANGED <<selection_history, auto_calls>>

\* the variant that empties the undo stack only
ClearHistoryKeepsSelection ==
    /\ Step
    /\ rename_history' = <<>>
    /\ last' = Op("clear", <<>>, <<>>, EmptyRun(scene))
    /\ UNCHANGED <<scene, selection_history, auto_calls>>

ClearHistory ==
    /\ Step
    /\ selection_history' = <<>>
    /\ rename_history' = <<>>
    /\ auto_calls' = 0
    /\ last' = Op("clear", <<>>, <<>>, EmptyRun(scene))
    /\ UNCHANGED scene

CleanAllSuffixes(selected, bad) ==
    LET run == clean_all_suffixes(selected, scene, bad)
    IN  /\ Step
        /\ scene' = run.scene
        /\ last' = Op("clean", <<>>, selected, run)
        /\ UNCHANGED <<rename_history, selection_history, auto_calls>>

Next ==
    \/ \E objects \in Selections(scene), bad \in SUBSET Lockable : RenameToLow(objects, bad)
    \/ \E objects \in Selections(scene), bad \in SUBSET Lockable : RenameToHigh(objects, bad)
    \/ \E suffix \in CustomSuffixes, objects \in Selections(scene), bad \in SUBSET Lockable :
           RenameWithCustomSuffix(suffix, objects, bad)
    \/ \E selected \in Selections(scene), bad \in SUBSET Lockable :
           AutoRenameBySelectionOrder(selected, bad)
    \/ \E bad \in SUBSET Lockable : UndoLastRename(bad)
    \/ ClearHistory
    \/ \E selected \in Selections(scene), bad \in SUBSET Lockable :
           CleanAllSuffixes(selected, bad)

Spec == Init /\ [][Next]_vars

----------------------------------------------------------------------------
(* Material configuration (MaterialConfig of src/scripts/maya_baking_renamer.py) *)

LowerCase == <<"a", "b", "c", "d", "e", "f", "g", "h", "i", "j", "k", "l", "m",
               "n", "o", "p", "q", "r", "s", "t", "u", "v", "w", "x", "y", "z">>

UpperCase == <<"A", "B", "C", "D", "E", "F", "G", "H", "I", "J", "K", "L", "M",
               "N", "O", "P", "Q", "R", "S", "T", "U", "V", "W", "X", "Y", "Z">>

IsLower(c) == \E i \in 1..Len(LowerCase) : LowerCase[i] = c

IsUpper(c) == \E i \in 1..Len(UpperCase) : UpperCase[i] = c

IsAlpha(c) == IsLower(c) \/ IsUpper(c)

ToUpper(c) ==
    IF IsLower(c) THEN UpperCase[CHOOSE i \in 1..Len(LowerCase) : LowerCase[i] = c] ELSE c

ToLower(c) ==
    IF IsUpper(c) THEN LowerCase[CHOOSE i \in 1..Len(UpperCase) : UpperCase[i] = c] ELSE c

\* str.title(): a letter that starts a run of letters is upper-cased, every
\* other letter is lower-cased
Title(s) ==
    [i \in 1..Len(s) |->
        IF i = 1 \/ ~IsAlpha(s[IF i = 1 THEN 1 ELSE i - 1]) THEN ToUpper(s[i]) ELSE ToLower(s[i])]

IsNotUnderscore(c) == c # "_"

\* str.replace('_', '')
RemoveUnderscores(s) == SelectSeq(s, IsNotUnderscore)

\* clean_suffix = suffix.replace('_', '').title(); f'BakingMaterial_{clean_suffix}'
DerivedMaterialName(suffix) == S_BakingMaterial \o Title(RemoveUnderscores(suffix))

\* suffix in self.material_configs
HasConfig(configs, suffix) == \E i \in 1..Len(configs) : configs[i].suffix = suffix

ConfigIndex(configs, suffix) == CHOOSE i \in 1..Len(configs) : configs[i].suffix = suffix

\* self.material_configs[suffix] = record: an existing key keeps its position
\* in the dict, a new key goes to the end
SetConfig(configs, rec) ==
    IF HasConfig(configs, rec.suffix)
    THEN [configs EXCEPT ![ConfigIndex(configs, rec.suffix)] = rec]
    ELSE Append(configs, rec)

\* MaterialConfig.add_suffix_config; material_name = <<>> stands for None
add_suffix_config(configs, suffix, color, transparency, material_name, enabled) ==
    LET key == NormalSuffix(suffix)
    IN  SetConfig(configs,
            [suffix |-> key, color |-> color, transparency |-> transparency,
             material_name |-> IF material_name = <<>> THEN DerivedMaterialName(key)
                               ELSE material_name,
             enabled |-> enabled])

\* MaterialConfig.remove_suffix_config: the argument is looked up as given
remove_suffix_config(configs, suffix) ==
    LET Kept(rec) == rec.suffix # suffix
    IN  IF HasConfig(configs, suffix) THEN SelectSeq(configs, Kept) ELSE configs

IsEnabled(rec) == rec.enabled

\* MaterialConfig.get_enabled_configs
get_enabled_configs(configs) == SelectSeq(configs, IsEnabled)

\* MaterialConfig.update_suffix_transparency
update_suffix_transparency(configs, suffix, transparency) ==
    IF HasConfig(configs, suffix)
    THEN [configs EXCEPT ![ConfigIndex(configs, suffix)].transparency = transparency]
    ELSE configs

\* MaterialConfig.update_suffix_color
update_suffix_color(configs, suffix, color) ==
    IF HasConfig(configs, suffix)
    THEN [configs EXCEPT ![ConfigIndex(configs, suffix)].color = color]
    ELSE configs

----------------------------------------------------------------------------
(* Host shading network (maya.cmds) as the material helper uses it *)

\* A host state is [scene, shading]. A lambert node is [name, color,
\* transparency]; a shading group is [name, shader, members], where shader is
\* the name of the connected surface shader (<<>> when none is connected) and
\* members is the set of objects rendered with it. Transforms, lambert nodes
\* and shading groups share one namespace.

NodeNames(host) ==
    Names(host.scene) \cup {m.name : m \in host.shading.materials}
                      \cup {g.name : g \in host.shading.groups}

\* the name the host gives a new node asked to be called name
HostNewName(host, name) ==
    IF name \notin NodeNames(host) THEN name ELSE HostFreeName(name, NodeNames(host), 1)

\* cmds.delete(name): the node of that name goes, whatever its kind. A deleted
\* transform leaves every shading group; a deleted lambert leaves the groups
\* it was connected to without a surface shader, the groups themselves stay.
HostDelete(host, name) ==
    IF name \in Names(host.scene)
    THEN LET o == ObjOf(name, host.scene)
         IN  [scene |-> [q \in DOMAIN host.scene \ {o} |-> host.scene[q]],
              shading |-> [host.shading EXCEPT
                              !.groups = {[g EXCEPT !.members = @ \ {o}] : g \in @}]]
    ELSE IF \E m \in host.shading.materials : m.name = name
    THEN [host EXCEPT
             !.shading.materials = {m \in @ : m.name # name},
             !.shading.groups = {[g EXCEPT !.shader = IF @ = name THEN <<>> ELSE @] : g \in @}]
    ELSE [host EXCEPT !.shading.groups = {g \in @ : g.name # name}]

\* cmds.sets(obj, edit=True, forceElement=shading_group): the object joins the
\* group and leaves every other shading group
HostForceElement(host, o, shading_group) ==
    [host EXCEPT !.shading.groups =
        {[g EXCEPT !.members = IF g.name = shading_group THEN @ \cup {o} ELSE @ \ {o}] : g \in @}]

\* cmds.listConnections(material, type='shadingEngine')
listConnections(host, material) == {g.name : g \in {h \in host.shading.groups : h.shader = material}}

----------------------------------------------------------------------------
(* Material helper (src/scripts/maya_baking_renamer.py, and the same two     *)
(* functions of src/maya_baking_renamer.py)                                 *)

\* create_lambert_material: if cmds.objExists(name): cmds.delete(name); then a
\* new lambert of that name with the colour, and the transparency when it is
\* above 0.0 (a new lambert is opaque)
create_lambert_material(host, name, color, transparency) ==
    LET cleared == IF name \in NodeNames(host) THEN HostDelete(host, name) ELSE host
        material == HostNewName(cleared, name)
    IN  [host |-> [cleared EXCEPT !.shading.materials = @ \cup
                      {[name |-> material, color |-> color,
                        transparency |-> IF transparency > 0 THEN transparency ELSE 0]}],
         material |-> material]

\* for obj in objects: if cmds.objExists(obj): cmds.sets(obj, forceElement=...)
RECURSIVE AssignLoop(_, _, _, _)
AssignLoop(objects, i, shading_group, run) ==
    IF i > Len(objects) THEN run
    ELSE IF objExists(objects[i], run.host.scene)
    THEN AssignLoop(objects, i + 1, shading_group,
             [host |-> HostForceElement(run.host, ObjOf(objects[i], run.host.scene), shading_group),
              assigned |-> Append(run.assigned, objects[i])])
    ELSE AssignLoop(objects, i + 1, shading_group, run)

\* assign_material_to_objects: the first shading group connected to the
\* material, or else a new group named f"{material}SG" connected to it
assign_material_to_objects(host, objects, material) ==
    IF objects = <<>> \/ material = <<>> THEN [host |-> host, assigned |-> <<>>]
    ELSE LET connections == listConnections(host, material)
             shading_group == IF connections # {} THEN CHOOSE g \in connections : TRUE
                              ELSE HostNewName(host, material \o <<"S", "G">>)
             connected == IF connections # {} THEN host
                          ELSE [host EXCEPT !.shading.groups = @ \cup
                                   {[name |-> shading_group, shader |-> material, members |-> {}]}]
         IN  AssignLoop(objects, 1, shading_group, [host |-> connected, assigned |-> <<>>])

RECURSIVE IdsInOrder(_)
IdsInOrder(S) ==
    IF S = {} THEN <<>>
    ELSE LET least == CHOOSE x \in S : \A y \in S : x <= y
         IN  <<least>> \o IdsInOrder(S \ {least})

\* cmds.ls(transforms=True)
ls_transforms(sc) == [i \in 1..Cardinality(DOMAIN sc) |-> sc[IdsInOrder(DOMAIN sc)[i]]]

\* find_objects_by_suffix
find_objects_by_suffix(suffix, sc) ==
    LET Matches(obj) == EndsWith(obj, suffix)
    IN  SelectSeq(ls_transforms(sc), Matches)

\* result[clean_suffix] = {...}: an existing key keeps its position
SetResult(result, entry) ==
    IF \E i \in 1..Len(result) : result[i].key = entry.key
    THEN [result EXCEPT ![CHOOSE i \in 1..Len(result) : result[i].key = entry.key] = entry]
    ELSE Append(result, entry)

\* the variant that takes a global transparency of 0.0 for a missing one
TransparencyForTruthy(global_transparency, config) ==
    IF global_transparency # <<>> /\ global_transparency[1] # 0
    THEN global_transparency[1]
    ELSE config.transparency

\* transparency = global_transparency if global_transparency is not None
\*                else config['transparency']
TransparencyFor(global_transparency, config) ==
    IF global_transparency # <<>> THEN global_transparency[1] ELSE config.transparency

\* for suffix, config in enabled_configs.items(): ...; global_transparency is
\* <<>> for None and <<t>> for the value t
RECURSIVE AutoAssignLoop(_, _, _, _)
AutoAssignLoop(enabled_configs, i, global_transparency, run) ==
    IF i > Len(enabled_configs) THEN run
    ELSE LET config == enabled_configs[i]
             objects == find_objects_by_suffix(config.suffix, run.host.scene)
             clean_suffix == RemoveUnderscores(config.suffix)
         IN  IF objects = <<>>
             THEN AutoAssignLoop(enabled_configs, i + 1, global_transparency,
                      [run EXCEPT !.result = SetResult(@,
                          [key |-> clean_suffix, objects |-> objects, material |-> <<>>])])
             ELSE LET transparency == TransparencyFor(global_transparency, config)
                      made == create_lambert_material(run.host, config.material_name,
                                                      config.color, transparency)
                      done == assign_material_to_objects(made.host, objects, made.material)
                  IN  AutoAssignLoop(enabled_configs, i + 1, global_transparency,
                          [host |-> done.host,
                           result |-> SetResult(run.result,
                               [key |-> clean_suffix, objects |-> objects,
                                material |-> made.material])])

\* MayaBakingRenamer.auto_assign_materials (configurable version)
auto_assign_materials(configs, host, global_transparency) ==
    LET enabled_configs == get_enabled_configs(configs)
    IN  IF enabled_configs = <<>> THEN [host |-> host, result |-> <<>>]
        ELSE AutoAssignLoop(enabled_configs, 1, global_transparency,
                            [host |-> host, result |-> <<>>])

RECURSIVE TotalObjects(_, _)
\* sum(len(result[key]['objects']) for key in result)
TotalObjects(result, i) ==
    IF i > Len(result) THEN 0
    ELSE Len(result[i].objects) + TotalObjects(result, i + 1)

\* the keys the panel reads from the result: for key in ['low', 'high', 'cage']
StatusKeys == <<RemoveUnderscores(S_low), RemoveUnderscores(S_high), RemoveUnderscores(S_cage)>>

\* MayaBakingRenamerGUI.auto_assign_materials: the status line after the call
\* returned result; result[key] raises KeyError for a key the result lacks, and
\* the handler's except clause reports the failure
AutoAssignStatus(result) ==
    IF TotalObjects(result, 1) > 0
    THEN IF \A k \in 1..Len(StatusKeys) :
                \E i \in 1..Len(result) : result[i].key = StatusKeys[k]
         THEN "completed"
         ELSE "failed"
    ELSE "not found"

----------------------------------------------------------------------------
(* The material configuration and the material helper as a state machine *)

S_LOW   == <<"_", "L", "O", "W">>
S_x_low == <<"_", "x">> \o S_low

\* the transforms of the scene: one per default suffix in use, one whose name
\* ends with two configurable suffixes, one with an upper-case suffix, and one
\* that has the name of the material of the _low configuration
MaterialScene ==
    << <<"A">> \o S_low, <<"A">> \o S_high, <<"B">> \o S_x_low, <<"C">> \o S_LOW,
       DerivedMaterialName(S_low) >>

\* suffix arguments: a custom suffix typed without its underscore, an
\* upper-case spelling, and a default suffix
SuffixArguments == {<<"x">> \o S_low, S_LOW, S_low}

\* suffixes named in updates and removals
SuffixKeys == {S_low, S_x_low, <<"x">> \o S_low}

\* colour arguments: blue, and a triple outside the documented 0-1 range
ColorArguments == {<<0, 0, 100>>, <<150, 0, -50>>}

\* transparency arguments on the percentage scale: 0.5, and 1.5 which is
\* outside the documented 0-1 range
TransparencyArguments == {50, 150}

\* global transparency arguments: None, 0.0 and 0.5
GlobalTransparencyArguments == {<<>>, <<0>>, <<50>>}

InitMaterials ==
    /\ scene = MaterialScene
    /\ rename_history = <<>>
    /\ selection_history = <<>>
    /\ auto_calls = 0
    /\ material_configs = DefaultMaterialConfigs
    /\ shading = NoShading
    /\ ops = 0
    /\ last = NoOp

\* one call on the material side; it leaves the renamer's histories alone
MaterialStep ==
    /\ ops < MaxOps
    /\ ops' = ops + 1
    /\ UNCHANGED <<rename_history, selection_history, auto_calls>>

\* MayaBakingRenamer.add_material_config(suffix, color, transparency, None, enabled)
AddMaterialConfig(suffix, color, transparency, enabled) ==
    /\ MaterialStep
    /\ material_configs' =
           add_suffix_config(material_configs, suffix, color, transparency, <<>>, enabled)
    /\ last' = [op |-> "add_material_config", suffix |-> suffix, color |-> color,
                transparency |-> transparency, enabled |-> enabled,
                pre_configs |-> material_configs]
    /\ UNCHANGED <<scene, shading>>

\* MayaBakingRenamer.remove_material_config(suffix)
RemoveMaterialConfig(suffix) ==
    /\ MaterialStep
    /\ material_configs' = remove_suffix_config(material_configs, suffix)
    /\ last' = [op |-> "remove_material_config", suffix |-> suffix,
                pre_configs |-> material_configs]
    /\ UNCHANGED <<scene, shading>>

\* MayaBakingRenamer.update_material_transparency(suffix, transparency)
UpdateMaterialTransparency(suffix, transparency) ==
    /\ MaterialStep
    /\ material_configs' = update_suffix_transparency(material_configs, suffix, transparency)
    /\ last' = [op |-> "update_material_transparency", suffix |-> suffix,
                transparency |-> transparency, pre_configs |-> material_configs]
    /\ UNCHANGED <<scene, shading>>

\* MayaBakingRenamer.update_material_color(suffix, color)
UpdateMaterialColor(suffix, color) ==
    /\ MaterialStep
    /\ material_configs' = update_suffix_color(material_configs, suffix, color)
    /\ last' = [op |-> "update_material_color", suffix |-> suffix, color |-> color,
                pre_configs |-> material_configs]
    /\ UNCHANGED <<scene, shading>>

\* the auto-assign button: MayaBakingRenamer.auto_assign_materials(global_transparency)
\* and the status line the panel shows for its result
AutoAssignMaterials(global_transparency) ==
    LET run == auto_assign_materials(material_configs,
                                     [scene |-> scene, shading |-> shading],
                                     global_transparency)
    IN  /\ MaterialStep
        /\ scene' = run.host.scene
        /\ shading' = run.host.shading
        /\ last' = [op |-> "auto_assign_materials", global_transparency |-> global_transparency,
                    result |-> run.result, status |-> AutoAssignStatus(run.result),
                    pre |-> scene, pre_shading |-> shading,
                    pre_configs |-> material_configs]
        /\ UNCHANGED material_configs

NextMaterials ==
    \/ \E suffix \in SuffixArguments, color \in ColorArguments,
          transparency \in TransparencyArguments, enabled \in BOOLEAN :
           AddMaterialConfig(suffix, color, transparency, enabled)
    \/ \E suffix \in SuffixKeys : RemoveMaterialConfig(suffix)
    \/ \E suffix \in SuffixKeys, transparency \in TransparencyArguments :
           UpdateMaterialTransparency(suffix, transparency)
    \/ \E suffix \in SuffixKeys, color \in ColorArguments : UpdateMaterialColor(suffix, color)
    \/ \E global_transparency \in GlobalTransparencyArguments :
           AutoAssignMaterials(global_transparency)

SpecMaterials == InitMaterials /\ [][NextMaterials]_vars

----------------------------------------------------------------------------
(* Claims about the naming engine *)

IsGen == last.op = "generate_unique_name"

IsClean == last.op = "clean_object_name"

\* C1: generate_unique_name returns a name that no object of the scene holds,
\* and the counter values it tests are 1, 2, 3, ... in this order, so that no
\* value is tested twice.
C1_UniqueNameAbsent ==
    IsGen =>
        /\ last.name \notin Names(scene)
        /\ \A i \in 1..Len(last.tested) : last.tested[i] = i

\* C1 witness: a call that had to test three or more counter values
C1_Witness == IsGen /\ Len(last.tested) >= 3

\* C2: generate_unique_name returns base unchanged when base is absent from the
\* scene; otherwise base_NN for the smallest k >= 1 whose candidate is absent
\* (every candidate with a smaller counter is present).
C2_SmallestFreeCounter ==
    IsGen =>
        IF last.base \notin Names(scene)
        THEN last.name = last.base
        ELSE \E k \in 1..(Cardinality(DOMAIN scene) + 1) :
                /\ last.name = CounterName(last.base, k)
                /\ CounterName(last.base, k) \notin Names(scene)
                /\ \A j \in 1..(k - 1) : CounterName(last.base, j) \in Names(scene)

\* C2 witness: the counters 1..9 are taken and the two-digit counter 10 is returned
C2_Witness ==
    /\ IsGen
    /\ last.base \in Names(scene)
    /\ last.name = last.base \o <<"_", "1", "0">>

\* C5: for every name n ending with a known suffix s, clean_object_name(n)
\* followed by s is n again.
C5_StripThenReappend ==
    IsClean =>
        \A i \in 1..Len(suffixes) :
            EndsWith(last.obj_name, suffixes[i]) =>
                last.result \o suffixes[i] = last.obj_name

\* C5 witness: a name ending with the last suffix of the list was stripped
C5_Witness ==
    /\ IsClean
    /\ EndsWith(last.obj_name, S_HP)
    /\ last.result # last.obj_name

MatchingSuffixes(n) == {i \in 1..Len(suffixes) : EndsWith(n, suffixes[i])}

FirstMatch(n) == CHOOSE i \in MatchingSuffixes(n) : \A j \in MatchingSuffixes(n) : i <= j

\* C6: clean_object_name removes at most one suffix per call: the first list
\* entry that matches is removed once (X_low_high becomes X_low, which still
\* ends with a known suffix); a name ending with none of them is unchanged.
C6_AtMostOneSuffix ==
    IsClean =>
        /\ MatchingSuffixes(last.obj_name) = {} => last.result = last.obj_name
        /\ MatchingSuffixes(last.obj_name) # {} =>
               last.result = DropLast(last.obj_name,
                                      Len(suffixes[FirstMatch(last.obj_name)]))
        /\ last.obj_name = <<"A">> \o S_low \o S_high => last.result = <<"A">> \o S_low

\* C6 witness: a name carrying two known suffixes lost only the outer one
C6_Witness ==
    /\ IsClean
    /\ last.obj_name = <<"A">> \o S_high \o S_low
    /\ last.result = <<"A">> \o S_high
    /\ MatchingSuffixes(last.result) # {}

----------------------------------------------------------------------------
(* Claims about undo *)

IsUndo == last.op = "undo" /\ last.pre_hist # <<>>

PoppedBatch == last.pre_hist[Len(last.pre_hist)]

\* C3: after undo_last_rename on a non-empty undo stack, every pair (old, new)
\* of the popped batch is processed; the object named new is named old again
\* exactly when an object named new existed when the pair was processed, and a
\* pair whose new name no longer exists changes no object. Stated for the
\* undos in which no host call failed.
C3_UndoRestoresOldName ==
    (IsUndo /\ ~last.raised) =>
        /\ Len(last.steps) = Len(PoppedBatch)
        /\ \A i \in 1..Len(last.steps) :
              LET step == last.steps[i]
              IN  /\ step.existed => step.after[step.obj] = step.pair[1]
                  /\ ~step.existed => step.after = step.before

----------------------------------------------------------------------------
(* Claims about the rename operations *)

IsRename == last.op = "rename"

\* C7: re-applying the suffix an object already carries (_low to B_low, _high
\* to B_high, cage to B_cage) leaves the object's name unchanged: the new name
\* is base + suffix with no counter appended.
C7_ReapplySuffixKeepsName ==
    IsRename =>
        \A i \in 1..Len(last.steps) :
            LET step == last.steps[i]
            IN  (/\ ~step.failed
                 /\ last.suffix \in {S_low, S_high, S_cage}
                 /\ EndsWith(step.old, last.suffix))
                => step.renamed = step.old

----------------------------------------------------------------------------
(* Claims about auto rename by selection order *)

IsAuto == last.op = "auto" /\ last.objects # <<>>

\* C8: counted from an empty selection history, the selection history has
\* length zero after every even-numbered invocation of
\* auto_rename_by_selection_order (so also after two full low/high cycles).
C8_EvenInvocationLeavesEmptyHistory ==
    auto_calls % 2 = 0 => Len(selection_history) = 0

\* C9: counted from an empty selection history, the odd-numbered invocations
\* of auto_rename_by_selection_order apply _low and the even-numbered ones
\* _high, to the selection of that invocation, and no other suffix is applied.
C9_AutoAlternatesLowHigh ==
    IsAuto =>
        /\ last.suffix = (IF auto_calls % 2 = 1 THEN S_low ELSE S_high)
        /\ \A i \in 1..Len(last.steps) :
              /\ last.steps[i].old = last.objects[i]
              /\ StartsWith(last.steps[i].requested,
                            clean_object_name(last.objects[i]) \o last.suffix)

\* C9 witness: a third invocation, after a completed low/high cycle, renamed with _low
C9_Witness ==
    /\ IsAuto
    /\ auto_calls = 3
    /\ last.pre_sel = <<>>
    /\ last.suffix = S_low
    /\ last.returned # <<>>

\* C10 as stated: an invocation that finds two snapshots in the selection
\* history leaves the selection history empty.
C10_ThirdInvocationEmptiesHistory ==
    (IsAuto /\ Len(last.pre_sel) = 2) => selection_history = <<>>

\* C10 amended: an invocation that finds two snapshots in the selection history
\* restarts the cycle: it leaves exactly one snapshot, its own selection, and
\* applies _low.
C10_ThirdInvocationRestartsCycle ==
    (IsAuto /\ Len(last.pre_sel) = 2) =>
        /\ selection_history = <<last.objects>>
        /\ last.suffix = S_low

\* C10 witness: an invocation that found two snapshots
C10_Witness == IsAuto /\ Len(last.pre_sel) = 2

----------------------------------------------------------------------------
(* Claims about batches and host failures *)

\* an invocation of a rename operation on a non-empty object list with a
\* non-empty suffix
IsBatch == IsRename /\ last.objects # <<>> /\ last.suffix # <<>>

Succeeded(step) == ~step.failed

\* the (original name, new name) pairs of the steps whose host rename succeeded
SucceededPairs(steps) ==
    LET done == SelectSeq(steps, Succeeded)
    IN  [i \in 1..Len(done) |-> <<done[i].old, done[i].renamed>>]

\* the new names of the steps whose host rename succeeded
SucceededNames(steps) ==
    LET done == SelectSeq(steps, Succeeded)
    IN  [i \in 1..Len(done) |-> done[i].renamed]

\* C11: in rename_to_low, rename_to_high and rename_with_custom_suffix, when
\* the host rename fails for one object, every later object of the list is
\* still processed, the operation returns normally, and the batch appended to
\* the undo stack holds exactly the pairs of the objects whose rename
\* succeeded.
C11_FailureSkipsOnlyThatObject ==
    IsBatch =>
        /\ Len(last.steps) = Len(last.objects)
        /\ ~last.raised
        /\ rename_history =
               (IF SucceededPairs(last.steps) = <<>>
                THEN last.pre_hist
                ELSE Append(last.pre_hist, SucceededPairs(last.steps)))

\* C12: with no transform selected, rename_to_low(), rename_to_high(),
\* rename_with_custom_suffix(s) and auto_rename_by_selection_order() abort
\* without raising: no object is renamed, the undo stack and the selection
\* history are unchanged, and the rename operations return an empty list.
C12_EmptySelectionAborts ==
    (last.op \in {"rename", "auto"} /\ last.objects = <<>>) =>
        /\ ~last.raised
        /\ scene = last.pre
        /\ rename_history = last.pre_hist
        /\ selection_history = last.pre_sel
        /\ last.returned = <<>>

\* C12 witness: an auto rename on an empty selection, in a session that holds
\* a batch and a selection snapshot
C12_Witness ==
    /\ last.op = "auto"
    /\ last.objects = <<>>
    /\ last.pre_hist # <<>>
    /\ last.pre_sel # <<>>

\* C13: each invocation of rename_to_low, rename_to_high,
\* rename_with_custom_suffix or auto_rename_by_selection_order that renames at
\* least one object appends exactly one batch at the end of the undo stack and
\* leaves the earlier batches unchanged; the batch lists the (original name,
\* new name) pairs in processing order, and the returned list is the sequence
\* of new names of that batch.
C13_OneBatchPerInvocation ==
    (last.op \in {"rename", "auto"} /\ SucceededPairs(last.steps) # <<>>) =>
        /\ rename_history = Append(last.pre_hist, SucceededPairs(last.steps))
        /\ \A i \in 1..Len(last.steps) : last.steps[i].old = last.objects[i]
        /\ last.returned = SucceededNames(last.steps)

\* C14: the panel's clean-all-suffixes action records a rename batch of its
\* (old, new) pairs on the undo stack, so that an immediately following undo
\* restores the suffixes it removed rather than reverting an earlier action.
C14_CleanAllRecordsBatch ==
    (last.op = "clean" /\ SucceededPairs(last.steps) # <<>>) =>
        rename_history = Append(last.pre_hist, SucceededPairs(last.steps))

\* the objects that the last operation was not asked to rename
OutsideBatch == {o \in DOMAIN last.pre : \A i \in 1..Len(last.objects) : last.pre[o] # last.objects[i]}

\* C18: every rename request issued by rename_to_low, rename_to_high and
\* rename_with_custom_suffix targets a name that no scene object holds at the
\* moment of the request (so the host grants exactly that name); within one
\* batch the new names are pairwise distinct and distinct from the names of
\* the objects outside the batch, also when input objects share a base name.
C18_RequestsTargetFreeNames ==
    last.op \in {"rename", "auto"} =>
        LET names == SucceededNames(last.steps)
        IN  /\ \A i \in 1..Len(last.steps) :
                  /\ last.steps[i].requested \notin last.steps[i].taken
                  /\ ~last.steps[i].failed => last.steps[i].renamed = last.steps[i].requested
            /\ \A i, j \in 1..Len(names) : i # j => names[i] # names[j]
            /\ \A i \in 1..Len(names), o \in OutsideBatch : names[i] # scene[o]

\* C18 witness: a batch of two objects with the same base name, both renamed,
\* the second one to a name with a counter
C18_Witness ==
    /\ IsRename
    /\ Len(last.steps) = 2
    /\ \A i \in 1..2 : ~last.steps[i].failed
    /\ clean_object_name(last.steps[1].old) = clean_object_name(last.steps[2].old)
    /\ last.steps[2].renamed # clean_object_name(last.steps[2].old) \o last.suffix

\* C19: round trip. One rename batch (rename_to_low, rename_to_high or
\* rename_with_custom_suffix on a list of distinct existing objects)
\* immediately followed by undo_last_rename restores every object's name to
\* its value before the batch and the undo stack to its content before the
\* batch, also when the new name of one pair is the original name of another.
\* Stated for the undos in which no host call failed.
C19_RenameThenUndoRoundTrip ==
    [][(IsBatch /\ last'.op = "undo" /\ ~last'.raised) =>
           /\ scene' = last.pre
           /\ rename_history' = last.pre_hist]_vars

----------------------------------------------------------------------------
(* Claims about termination *)

\* C20: generate_unique_name terminates for every finite scene: it returns
\* after testing at most N+1 counter values beyond the base name, where N is
\* the number of objects of the scene.
C20_CounterSearchBounded ==
    IsGen => Len(last.tested) <= Cardinality(DOMAIN scene) + 1

\* C20 witness: the longest search a scene allows: the base name and every
\* counter below the returned one are held, so the call tested as many
\* counters as the scene has objects
C20_Witness ==
    /\ IsGen
    /\ Cardinality(DOMAIN scene) >= 3
    /\ Len(last.tested) = Cardinality(DOMAIN scene)

----------------------------------------------------------------------------
(* Claims about material assignment *)

IsAutoAssign == last.op = "auto_assign_materials"

\* the transforms that are members of a shading group of the material called name
MembersOfMaterial(name) ==
    UNION {g.members : g \in {h \in shading.groups : h.shader = name}}

\* C15: after auto_assign_materials (configurable version), a transform is a
\* member of the shading group of a configured suffix's material if and only if
\* its name ends with that suffix and the suffix's configuration is enabled
\* (stated for each enabled configuration); a disabled suffix is not processed
\* and reports nothing. This is to hold also when a name matches several
\* enabled suffixes and when two enabled suffixes derive the same material name.
C15_MembersAreTheMatchingTransforms ==
    IsAutoAssign =>
        \A i \in 1..Len(material_configs) :
            LET config == material_configs[i]
            IN  /\ config.enabled =>
                      \A o \in DOMAIN scene :
                          o \in MembersOfMaterial(config.material_name)
                              <=> EndsWith(scene[o], config.suffix)
                /\ ~config.enabled =>
                      \A k \in 1..Len(last.result) :
                          last.result[k].key # RemoveUnderscores(config.suffix)

MaterialNodeNames(sh) == {m.name : m \in sh.materials}

ShadingGroupNames(sh) == {g.name : g \in sh.groups}

\* C16: material creation is create-or-reuse: a second auto_assign_materials
\* in a row on an unchanged scene leaves the same set of shading nodes and
\* shading groups as the first one; none is duplicated and none is left
\* without its shading node.
C16_SecondAssignReusesNodes ==
    [][(IsAutoAssign /\ last'.op = "auto_assign_materials") =>
           /\ MaterialNodeNames(shading') = MaterialNodeNames(shading)
           /\ ShadingGroupNames(shading') = ShadingGroupNames(shading)
           /\ \A g \in shading'.groups : g.shader # <<>>]_vars

----------------------------------------------------------------------------
(* Claims about the material configuration *)

\* a value of the closed interval [0,1], counted in hundredths
InUnitInterval(v) == 0 <= v /\ v <= 100

\* C17: after any sequence of add_material_config,
\* update_material_transparency, update_material_color and
\* remove_material_config calls, every record of the material configuration
\* has a transparency within [0,1] and three colour components within [0,1].
C17_ConfigValuesInUnitInterval ==
    \A i \in 1..Len(material_configs) :
        /\ InUnitInterval(material_configs[i].transparency)
        /\ \A k \in 1..3 : InUnitInterval(material_configs[i].color[k])

----------------------------------------------------------------------------
(* Claims about the frame of undo, clear and the rename operations *)

\* C21: undo_last_rename on a non-empty undo stack shortens the stack by
\* exactly one batch whatever happened to the pairs (restored, skipped or
\* failed: a batch is never pushed back); on an empty undo stack it changes
\* neither the scene, the undo stack nor the selection history.
C21_UndoAlwaysDropsOneBatch ==
    last.op = "undo" =>
        /\ selection_history = last.pre_sel
        /\ IF last.pre_hist # <<>>
           THEN rename_history = SubSeq(last.pre_hist, 1, Len(last.pre_hist) - 1)
           ELSE /\ scene = last.pre
                /\ rename_history = <<>>
                /\ last.steps = <<>>
                /\ ~last.raised

\* C21 witness: an undo whose host call failed, and the batch is gone all the same
C21_Witness ==
    /\ IsUndo
    /\ last.raised
    /\ Len(rename_history) = Len(last.pre_hist) - 1
    /\ scene = last.pre

\* a custom-suffix rename with the suffix "cage" or "_cage" that did not raise
IsCageRename == IsRename /\ last.suffix = S_cage /\ ~last.raised

\* the run of rename_with_custom_suffix on the scene and objects of the last
\* operation, for the suffix as typed
CustomRun(typed) == rename_with_custom_suffix(typed, last.objects, last.pre, {})

\* what both halves of C22 have in common: the two spellings of a suffix
\* give one and the same run, which is the one observed; an empty suffix
\* renames nothing, appends no batch and returns an empty list
CustomSuffixNormalised ==
    /\ IsCageRename =>
          /\ CustomRun(<<"c", "a", "g", "e">>) = CustomRun(S_cage)
          /\ CustomRun(S_cage).scene = scene
          /\ Returned(CustomRun(S_cage)) = last.returned
    /\ (IsRename /\ last.suffix = <<>>) =>
          /\ scene = last.pre
          /\ rename_history = last.pre_hist
          /\ last.steps = <<>>
          /\ last.returned = <<>>

\* C22 as stated: rename_with_custom_suffix normalises its suffix: s and
\* '_' + s give the same new names, which are base + '_' + s; an empty suffix
\* renames nothing, appends no batch and returns an empty list.
C22_CustomSuffixGivesBasePlusSuffix ==
    /\ CustomSuffixNormalised
    /\ IsCageRename =>
          \A i \in 1..Len(last.returned) :
              last.returned[i] = clean_object_name(last.objects[i]) \o S_cage

\* C22 amended: s and '_' + s give the same new names; a new name is
\* base + '_' + s when no scene object holds that name at the moment of the
\* request and otherwise base + '_' + s followed by '_' and a two-digit
\* counter; an empty suffix renames nothing, appends no batch and returns an
\* empty list.
C22_CustomSuffixNormalisedWithCounter ==
    /\ CustomSuffixNormalised
    /\ IsCageRename =>
          \A i \in 1..Len(last.steps) :
              LET step == last.steps[i]
                  wanted == clean_object_name(step.old) \o S_cage
              IN  /\ step.renamed = last.returned[i]
                  /\ wanted \notin step.taken => step.renamed = wanted
                  /\ wanted \in step.taken =>
                         \E k \in 1..(Cardinality(step.taken) + 1) :
                             step.renamed = CounterName(wanted, k)

\* C22 witness: a custom-suffix rename of two objects with the same base name,
\* the second of which received a counter
C22_Witness ==
    /\ IsCageRename
    /\ Len(last.steps) = 2
    /\ last.returned[1] = <<"A">> \o S_cage
    /\ last.returned[2] = CounterName(<<"A">> \o S_cage, 1)

\* C23: clear_history empties the undo stack and the selection history and
\* renames no object; an undo_last_rename that begins with the undo stack empty,
\* as clear_history leaves it, changes nothing, and an
\* auto_rename_by_selection_order of a non-empty selection that begins with the
\* selection history empty applies the _low suffix.
C23_ClearRestartsCycle ==
    /\ last.op = "clear" =>
           /\ rename_history = <<>>
           /\ selection_history = <<>>
           /\ auto_calls = 0
           /\ scene = last.pre
    /\ (last.op = "undo" /\ last.pre_hist = <<>>) =>
           /\ scene = last.pre
           /\ rename_history = <<>>
           /\ selection_history = last.pre_sel
           /\ last.steps = <<>>
    /\ (IsAuto /\ last.pre_sel = <<>>) =>
           /\ last.suffix = S_low
           /\ \A i \in 1..Len(last.steps) :
                  ~last.steps[i].failed =>
                      StartsWith(last.steps[i].renamed,
                                 clean_object_name(last.steps[i].old) \o S_low)

\* C23 witness: a clear_history that emptied a non-empty undo stack and a
\* selection history holding the snapshot of a _low step, with an operation
\* still to come
C23_Witness ==
    /\ last.op = "clear"
    /\ last.pre_hist # <<>>
    /\ last.pre_sel # <<>>
    /\ rename_history = <<>>
    /\ selection_history = <<>>
    /\ ops = 2

\* C24: rename_to_low, rename_to_high, rename_with_custom_suffix and
\* undo_last_rename leave the selection history as it was, also when a host call
\* fails, and so does every operation other than auto_rename_by_selection_order
\* and clear_history; an undo that begins with the snapshot of a _low step
\* held leaves _high as the suffix of the next auto-rename.
C24_OnlyAutoAndClearMoveTheCycle ==
    /\ last.op \in {"rename", "undo", "clean"} => selection_history = last.pre_sel
    /\ (last.op = "undo" /\ Len(last.pre_sel) = 1) => AutoSuffix(selection_history) = S_high

\* C24 witness: the _low step of a cycle has been undone, its objects have their
\* old names back, and the selection history still holds the snapshot
C24_Witness ==
    /\ IsUndo
    /\ ~last.raised
    /\ last.steps # <<>>
    /\ Len(last.pre_hist) = 1
    /\ selection_history # <<>>
    /\ selection_history = last.pre_sel
    /\ scene \in InitialScenes

\* C25: between operations of the renamer the selection history holds no
\* snapshot or one snapshot, whatever operations ran before and whether or not
\* host calls failed in them.
C25_SelectionHistoryAtMostOne == Len(selection_history) <= 1

(***************************************************************************)
(* Claims about the clean-all-suffixes action of the panel                 *)
(***************************************************************************)

IsCleanAll == last.op = "clean"

\* the selected names for which clean_all_suffixes asked the host for a rename
CleanRequestedFor == {last.steps[i].old : i \in 1..Len(last.steps)}

\* C30: clean-all-suffixes asks the host to rename a selected object only when
\* its name ends with a known suffix; the requested target is the stripped base
\* name, and no other scene object holds that name at the moment of the
\* request; a selected object without a known suffix is not renamed.
C30_CleanRequestsFreeBaseNames ==
    IsCleanAll =>
        /\ \A i \in 1..Len(last.steps) :
               LET step == last.steps[i]
               IN  /\ MatchingSuffixes(step.old) # {}
                   /\ step.requested = clean_object_name(step.old)
                   /\ step.requested \notin step.taken
        /\ \A i \in 1..Len(last.objects) :
               MatchingSuffixes(last.objects[i]) = {} =>
                   /\ last.objects[i] \notin CleanRequestedFor
                   /\ (objExists(last.objects[i], last.pre) /\ ~last.raised) =>
                          objExists(last.objects[i], scene)

(***************************************************************************)
(* Claims about the transparency and the configuration of auto-assign      *)
(***************************************************************************)

\* the enabled configurations of the last auto_assign_materials call
EnabledBefore == get_enabled_configs(last.pre_configs)

\* the enabled configurations that had matching transforms and whose material
\* was not created again for a later configuration of the same call
LastCreators ==
    {i \in 1..Len(EnabledBefore) :
        /\ find_objects_by_suffix(EnabledBefore[i].suffix, last.pre) # <<>>
        /\ \A j \in (i + 1)..Len(EnabledBefore) :
               find_objects_by_suffix(EnabledBefore[j].suffix, last.pre) # <<>>
                   => EnabledBefore[j].material_name # EnabledBefore[i].material_name}

\* C26: in auto_assign_materials a supplied global transparency, 0 included,
\* is the transparency of the material of every enabled suffix in place of the
\* configured one; when none is supplied each material has the transparency of
\* its configuration; the stored configuration is the same after the call.
C26_GlobalTransparencyOverrides ==
    IsAutoAssign =>
        /\ material_configs = last.pre_configs
        /\ \A i \in LastCreators :
               \E m \in shading.materials :
                   /\ m.name = EnabledBefore[i].material_name
                   /\ m.transparency =
                          IF last.global_transparency # <<>>
                          THEN last.global_transparency[1]
                          ELSE EnabledBefore[i].transparency

\* C26 witness: a call with global transparency 0.0 made an opaque material for
\* a suffix configured with transparency 0.5, and the configuration kept 0.5
C26_Witness ==
    /\ IsAutoAssign
    /\ last.global_transparency = <<0>>
    /\ \E i \in LastCreators :
           /\ EnabledBefore[i].transparency = 50
           /\ \E m \in shading.materials :
                  m.name = EnabledBefore[i].material_name /\ m.transparency = 0
           /\ \E k \in 1..Len(material_configs) :
                  /\ material_configs[k].suffix = EnabledBefore[i].suffix
                  /\ material_configs[k].transparency = 50

\* C27: for a suffix argument s, with or without its leading underscore, that
\* is not configured, add_material_config(s, ...) followed by
\* remove_material_config(s) leaves the configuration mapping as it was before
\* the add.
C27_AddThenRemoveRoundTrip ==
    [][ ( /\ last.op = "add_material_config"
          /\ ~HasConfig(last.pre_configs, last.suffix)
          /\ ~HasConfig(last.pre_configs, NormalSuffix(last.suffix))
          /\ last'.op = "remove_material_config"
          /\ last'.suffix = last.suffix )
        => material_configs' = last.pre_configs ]_vars

\* C28: whenever the auto-assign action of the panel finds a transform that
\* matches an enabled material configuration, the status line reports the
\* completion of the assignment, for every configuration that can be reached,
\* also with a default suffix removed or disabled or a custom suffix added.
C28_StatusReportsCompletion ==
    (IsAutoAssign /\ \E i \in 1..Len(EnabledBefore) :
                         find_objects_by_suffix(EnabledBefore[i].suffix, last.pre) # <<>>)
        => last.status = "completed"

\* C29: auto_assign_materials removes no transform: every transform of the
\* scene before the call is in the scene after it under the same name,
\* whatever the names are, the name of a configured material included.
C29_AutoAssignKeepsTransforms ==
    IsAutoAssign =>
        \A o \in DOMAIN last.pre :
            /\ o \in DOMAIN scene
            /\ scene[o] = last.pre[o]

====
